---- MODULE Spec2Model ----
(***************************************************************************)
(* Claude Projects CLI (claude_projects_enhanced_v14.py): the token-budget *)
(* context assembly of EnhancedClaudeCLI.do_chat, the model boundary, and  *)
(* the artifact / conversation persistence that follows a response.        *)
(*                                                                         *)
(* A Python str is modelled by the two measures estimate_tokens reads:     *)
(* its number of whitespace-delimited words and its number of characters.  *)
(***************************************************************************)
EXTENDS Integers, Sequences, FiniteSets, TLC

\* ------------------------------------------------------------------ bounds
MaxSel == 3       \* longest list of filenames given to chat -s
MaxTurns == 1     \* chat commands handled in one run
MaxTime == 1      \* last second of the wall clock
MaxSegs == 3      \* most fenced segments in one response text
MaxPasses == 2    \* extraction passes over one response text
MaxLen == 6       \* longest string handed to estimate_tokens character by character
MaxCalls == 3     \* add and update commands and changes made by hand

\* ------------------------------------------------------- program constants
SelectiveLimit == 190000   \* per-file check of chat -s
AllFilesLimit == 190000    \* check of the all-files context
HardLimit == 195000        \* final check on total_tokens
Overhead == 2000           \* "Buffer for system prompt"
Ceiling == 200000          \* the limit the CLI displays and documents
MinCodeLen == 100          \* "Skip small code snippets"

\* -------------------------------------------------------------------- text
Text(w, c) == [words |-> w, chars |-> c]

EmptyText == Text(0, 0)

\* "".join / f-string concatenation of two pieces that meet at whitespace
\* (every piece joined in this program begins or ends with "\n").
Cat(t1, t2) == Text(t1.words + t2.words, t1.chars + t2.chars)

RECURSIVE CatAll(_)
CatAll(ts) == IF ts = <<>> THEN EmptyText ELSE Cat(Head(ts), CatAll(Tail(ts)))

\* str.split() separates at runs of whitespace
IsSpace(ch) == ch \in {" ", "\n"}

\* len(text.split()): the maximal runs of non-whitespace characters
WordCount(str) ==
  Cardinality({i \in DOMAIN str :
                 /\ ~IsSpace(str[i])
                 /\ (i = 1 \/ IsSpace(str[i - 1]))})

\* the two measures of a str given character by character
Measure(str) == Text(WordCount(str), Len(str))

\* mutant: round() in place of int()
estimate_tokens_rounded(text) == (16 * text.words + 3 * text.chars + 12) \div 24

\* mutant: never less than one token
estimate_tokens_at_least_one(text) ==
  IF (16 * text.words + 3 * text.chars) \div 24 = 0
    THEN 1
    ELSE (16 * text.words + 3 * text.chars) \div 24

\* mutant: the character share is subtracted
estimate_tokens_minus(text) == (16 * text.words - 3 * text.chars) \div 24

\* int((word_count / 0.75 + char_count / 4) / 2): the float value is
\* (16*word_count + 3*char_count) / 24 and int() truncates it.
estimate_tokens(text) == (16 * text.words + 3 * text.chars) \div 24

\* ------------------------------------------------------------ file system
Projects == {"p1"}
AllProjects == {"p1", "p2"}    \* the directories under Claude_Projects, when two
NoProject == "<none>"
ProjectNameLen(p) == 2    \* len(self.name) of "p1"

FileNames == {"a.py", "b.py", "c.py"}
SortedNames == <<"a.py", "b.py", "c.py">>    \* sorted(files_path.iterdir())
DirName == ""                                \* files_path / "" is files_path
Absent == [kind |-> "absent"]

\* a filename given to a command that leads out of the files directory:
\* into the files directory of project p2, into the artifacts directory
OtherProjectPath == "../../p2/files/a.py"
ArtifactPath == "../artifacts/foo_0.python"

\* f"{stem}_{timestamp}{suffix}" of add_file
Stem(n) == CASE n = "a.py" -> "a" [] n = "b.py" -> "b" [] n = "c.py" -> "c"
StampedName(n, t) == Stem(n) \o "_" \o ToString(t) \o ".py"
StampedNames == {StampedName(n, t) : n \in FileNames, t \in 0..MaxTime}

\* sorted(files_path.iterdir()) of every name a files directory can hold:
\* "a.py" < "a_<timestamp>.py" < "b.py"
DirOrder ==
  [k \in 1..(Len(SortedNames) * (MaxTime + 2)) |->
     LET base == SortedNames[((k - 1) \div (MaxTime + 2)) + 1]
         j == (k - 1) % (MaxTime + 2)
     IN  IF j = 0 THEN base ELSE StampedName(base, j - 1)]

\* len(filename); a real timestamp has 15 characters
NameLen(n) ==
  IF n = DirName THEN 0
  ELSE IF n \in FileNames THEN 4
  ELSE IF n = OtherProjectPath THEN 19
  ELSE 20
NameWords(n) == IF n = DirName THEN 0 ELSE 1

\* The text files a project directory may hold.
DiskContent ==
  [n \in FileNames |->
     CASE n = "a.py" -> [kind |-> "text", text |-> Text(7055, 42331)]
       [] n = "b.py" -> [kind |-> "text", text |-> Text(3526, 21156)]
       [] n = "c.py" -> [kind |-> "text", text |-> Text(134114, 804684)]]

Stores == {[n \in FileNames |-> IF n \in S THEN DiskContent[n] ELSE Absent] :
             S \in SUBSET FileNames}
EmptyStore == [n \in FileNames |-> Absent]

\* ---------------------------------------------------------------- inputs
\* messages estimated at 100, 180000, 193000, 193001 and 198001 tokens
Msg100 == Text(71, 426)
Msg180000 == Text(127059, 762354)
MsgAtHard == Text(136235, 817414)
MsgOverHard == Text(136236, 817416)
MsgOverCeiling == Text(139765, 838595)
Messages == {Msg100, Msg180000, MsgAtHard, MsgOverHard, MsgOverCeiling}

SelNames == FileNames \cup {DirName}

\* the lists "chat -s f1,f2 -- msg" parses: never empty; here each name of
\* a list is given once
SelectedLists ==
  {s \in UNION {[1..k -> SelNames] : k \in 1..MaxSel} :
     \A i, j \in DOMAIN s : i # j => s[i] # s[j]}

\* A fenced body: the tag written after the opening fence ("" when there is
\* none), len(code.strip()), and what _extract_title can find in the body:
\* the first "class <name>", the first "def <name>", which of the two comes
\* first in the text, and the first line when it starts with "#".
Block(lang, n, cls, fn, cmt) ==
  [language |-> lang, strip_len |-> n, class_name |-> cls, func_name |-> fn,
   comment |-> cmt,
   first_decl |-> IF cls # "" THEN "class" ELSE IF fn # "" THEN "def" ELSE "none"]
DefFirst(block) == [block EXCEPT !.first_decl = "def"]

BigClass == Block("python", 150, "Foo", "", "")
Snippet == Block("python", 40, "", "", "")
Plain100 == Block("javascript", 100, "", "", "")
Plain99 == Block("javascript", 99, "", "", "")
Untagged == Block("", 150, "", "", "")
OpenEnded == Block("javascript", 150, "", "", "")
DefThenClass == DefFirst(Block("python", 150, "Foo", "run", ""))
CommentedJs == Block("javascript", 120, "Baz", "", "# my_helper")
CommentedDef == Block("python", 120, "", "run", "# my_helper")

\* A segment of a response text: an opening fence with its body, closed by
\* a fence or running to the end of the text.
Fenced(block) == [closed |-> TRUE, block |-> block]
Unterminated(block) == [closed |-> FALSE, block |-> block]

Segments ==
  {Fenced(BigClass), Fenced(Snippet), Fenced(Plain100), Fenced(Plain99),
   Fenced(Untagged), Fenced(DefThenClass), Fenced(CommentedJs),
   Fenced(CommentedDef), Unterminated(OpenEnded)}

\* the response texts handed to extract_code_blocks
ResponseTexts == UNION {[1..k -> Segments] : k \in 0..MaxSegs}

\* the responses the model boundary returns to do_chat
Responses == {<<>>, <<Fenced(Snippet), Fenced(BigClass)>>}

\* the strings handed to estimate_tokens character by character
Chars == {"x", " ", "\n"}
Strings == UNION {[1..k -> Chars] : k \in 0..MaxLen}

VARIABLES
  projects_base,    \* the project directories under Claude_Projects
  files,            \* files[p][n]: content of files/n of project p, or Absent
  artifacts,        \* artifacts[p]: filenames in the artifacts directory
  conversations,    \* conversations[p]: the conversation_<ts>.json documents
  current_project,  \* the CLI's open project, or NoProject
  now,              \* wall clock, seconds
  pc,               \* "idle", "request" (model call pending), "returned"
  turns,            \* chat commands handled so far
  model_calls,      \* calls of create_message_with_context so far
  request,          \* what this chat command handed to the model boundary
  option,           \* the option the chat command was given: "plain", "-n", "-s", "-f"
  message,          \* do_chat locals, kept until the next command
  selected_files,
  context,
  context_tokens,
  total_tokens,
  included_files,
  decisions,
  outcome,
  response_text,    \* the text handed to extract_code_blocks
  extracted,        \* the list extract_code_blocks returned last
  writes,           \* every open(filepath, 'w') of create_artifact, in order
  passes,           \* calls of extract_code_blocks so far
  est_text,         \* the str handed to estimate_tokens
  est_tokens,       \* what estimate_tokens returned for it
  est_calls,        \* calls of estimate_tokens so far
  metadata,         \* metadata[p]: the keys of metadata['files'] of project p
  returned,         \* the last add or update command's call and what it returned
  api_calls,        \* add and update commands, and changes made outside the CLI, so far
  fmt_files,        \* the files of the context handed to _format_file_context
  formatted         \* the file blocks of what _format_file_context returned

fsVars == <<projects_base, files, artifacts, conversations>>
locals == <<request, message, selected_files, context, context_tokens,
            total_tokens, included_files, decisions>>
chatVars == <<option, locals, outcome>>
extractVars == <<response_text, extracted, writes, passes>>
estimateVars == <<est_text, est_tokens, est_calls>>
apiVars == <<metadata, returned, api_calls>>
formatVars == <<fmt_files, formatted>>
vars == <<projects_base, files, artifacts, conversations, current_project, now,
          pc, turns, model_calls, request, option, message, selected_files,
          context, context_tokens, total_tokens, included_files, decisions,
          outcome, response_text, extracted, writes, passes, est_text,
          est_tokens, est_calls, metadata, returned, api_calls,
          fmt_files, formatted>>

\* ------------------------------------------------------ Project (lines 23-196)
\* files_path / filename: the directory entry the path leads to
Target(p, filename) ==
  CASE filename = OtherProjectPath ->
         [dir |-> "files", project |-> "p2", name |-> "a.py"]
    [] filename = ArtifactPath ->
         [dir |-> "artifacts", project |-> p,
          name |-> [stem |-> "foo", ordinal |-> 0, ts |-> 0, language |-> "python"]]
    [] OTHER -> [dir |-> "files", project |-> p, name |-> filename]

Entry(p, filename) ==
  LET t == Target(p, filename)
  IN  IF t.dir = "artifacts"
        THEN IF t.name \in artifacts[t.project]
               THEN [kind |-> "artifact"] ELSE Absent
        ELSE IF t.project \in DOMAIN files /\ t.name \in DOMAIN files[t.project]
               THEN files[t.project][t.name] ELSE Absent

Exists(p, filename) == filename = DirName \/ Entry(p, filename) # Absent

IsFile(p, filename) == filename # DirName /\ Entry(p, filename) # Absent

BinaryPlaceholder(filename) ==
  Text(4 + NameWords(filename), 30 + NameLen(filename))

\* Project.get_file_content: raises FileNotFoundError unless the path exists;
\* text by mime type or suffix is read, anything else yields the placeholder.
get_file_content(p, filename) ==
  IF ~Exists(p, filename)
    THEN [raised |-> TRUE, text |-> EmptyText]
    ELSE IF filename # DirName /\ Entry(p, filename).kind = "text"
      THEN [raised |-> FALSE, text |-> Entry(p, filename).text]
      ELSE [raised |-> FALSE, text |-> BinaryPlaceholder(filename)]

\* "\n--- File: {filename} ---\n" + content + "\n"
FileSection(filename, content) ==
  Text(3 + NameWords(filename) + content.words,
       17 + NameLen(filename) + content.chars)

\* a context string: its header, and one block per file section, in order
Context(kind, p, blocks) == [kind |-> kind, project |-> p, blocks |-> blocks]
EmptyContext == Context("none", NoProject, <<>>)

\* "Project: {name}\n" + "="*60 + "\n" + "Files in this project:\n"
AllHeader(p) == Text(7, 94 + ProjectNameLen(p))
\* "(No files in project yet)\n"
NoFilesNote == Text(5, 26)
\* "Project: {name} (Selected Files)\n" + "="*60 + "\n"
SelectedHeader(p) == Text(5, 88 + ProjectNameLen(p))

BlockTexts(blocks) == [i \in DOMAIN blocks |-> FileSection(blocks[i].name, blocks[i].text)]

\* the measures of "".join(context_parts)
ContextText(ctx) ==
  CASE ctx.kind = "none" -> EmptyText
    [] ctx.kind = "all" ->
         Cat(AllHeader(ctx.project),
             IF ctx.blocks = <<>> THEN NoFilesNote ELSE CatAll(BlockTexts(ctx.blocks)))
    [] ctx.kind = "selected" ->
         Cat(SelectedHeader(ctx.project), CatAll(BlockTexts(ctx.blocks)))

BlockNames(blocks) == [i \in DOMAIN blocks |-> blocks[i].name]

\* Project.list_files: the regular files of the files directory, sorted
list_files(p) == SelectSeq(DirOrder, LAMBDA n : IsFile(p, n))

\* mutant: the last file of the directory gets no block
get_project_context_truncated(p) ==
  Context("all", p,
          [i \in 1..(IF list_files(p) = <<>> THEN 0 ELSE Len(list_files(p)) - 1) |->
             [name |-> list_files(p)[i],
              text |-> get_file_content(p, list_files(p)[i]).text]])

\* Project.get_project_context: one block per regular file, sorted by name
get_project_context(p) ==
  Context("all", p,
          [i \in DOMAIN list_files(p) |->
             [name |-> list_files(p)[i],
              text |-> get_file_content(p, list_files(p)[i]).text]])

\* ------------------------------------- EnhancedClaudeCLI.do_chat (715-847)
OverSelectiveLimit(tokens_so_far, file_tokens, msg) ==
  tokens_so_far + file_tokens + estimate_tokens(msg) > SelectiveLimit

\* mutant: the all-files context is checked against the displayed ceiling
OverAllFilesLimitAtCeiling(tokens, msg) ==
  tokens + estimate_tokens(msg) > Ceiling

OverAllFilesLimit(tokens, msg) ==
  tokens + estimate_tokens(msg) > AllFilesLimit

\* mutant: the final check compares against the ceiling plus the overhead
TooLargeLoose(total) == total > Ceiling + Overhead

TooLarge(total) == total > HardLimit

\* mutant: the overhead is left out of the total
TotalTokensNoOverhead(tokens, msg) == tokens + estimate_tokens(msg)

TotalTokens(tokens, msg) == tokens + estimate_tokens(msg) + Overhead

Decision(filename, verdict, before, file_tokens) ==
  [name |-> filename, verdict |-> verdict, before |-> before,
   file_tokens |-> file_tokens]

\* one pass of "for filename in selected_files" (796-812)
SelectiveStep(p, msg, acc, filename) ==
  LET r == get_file_content(p, filename)
      file_tokens == estimate_tokens(FileSection(filename, r.text))
  IN  IF r.raised
        THEN [acc EXCEPT !.decisions =
                Append(@, Decision(filename, "error", acc.context_tokens, 0))]
        ELSE IF OverSelectiveLimit(acc.context_tokens, file_tokens, msg)
          THEN [acc EXCEPT !.decisions =
                  Append(@, Decision(filename, "skipped", acc.context_tokens,
                                     file_tokens))]
          ELSE [context_tokens |-> acc.context_tokens + file_tokens,
                blocks |-> Append(acc.blocks, [name |-> filename, text |-> r.text]),
                included_files |-> Append(acc.included_files, filename),
                decisions |-> Append(acc.decisions,
                                Decision(filename, "included", acc.context_tokens,
                                         file_tokens))]

\* mutant: the loop ends at the first skipped file (break for continue)
RECURSIVE SelectiveLoopBreak(_, _, _, _)
SelectiveLoopBreak(p, msg, acc, todo) ==
  IF todo = <<>> THEN acc
  ELSE LET next == SelectiveStep(p, msg, acc, Head(todo))
       IN  IF next.decisions[Len(next.decisions)].verdict = "skipped"
             THEN next
             ELSE SelectiveLoopBreak(p, msg, next, Tail(todo))

RECURSIVE SelectiveLoop(_, _, _, _)
SelectiveLoop(p, msg, acc, todo) ==
  IF todo = <<>> THEN acc
  ELSE SelectiveLoop(p, msg, SelectiveStep(p, msg, acc, Head(todo)), Tail(todo))

LoopStart ==
  [context_tokens |-> 0, blocks |-> <<>>, included_files |-> <<>>,
   decisions |-> <<>>]

Assembled(ctx, tokens, included, decs, rejected) ==
  [context |-> ctx, context_tokens |-> tokens,
   included_files |-> included, decisions |-> decs, rejected |-> rejected]

\* mutant: the -n flag is ignored
UseContextAlways(include_context) == current_project # NoProject

\* "if include_context and self.current_project" (790)
UseContext(include_context) == include_context /\ current_project # NoProject

\* lines 786-837: context and context_tokens of the three modes
Assemble(include_context, selected, msg) ==
  IF UseContext(include_context)
    THEN IF selected # <<>>
      THEN LET r == SelectiveLoop(current_project, msg, LoopStart, selected)
           IN  Assembled(Context("selected", current_project, r.blocks),
                         r.context_tokens, r.included_files, r.decisions, FALSE)
      ELSE LET ctx == get_project_context(current_project)
               tokens == estimate_tokens(ContextText(ctx))
           IN  Assembled(ctx, tokens, BlockNames(ctx.blocks), <<>>,
                         OverAllFilesLimit(tokens, msg))
    ELSE Assembled(EmptyContext, 0, <<>>, <<>>, FALSE)

Payload(msg, ctx) == [message |-> msg, context |-> ctx]
NoRequest == [message |-> EmptyText, context |-> EmptyContext]

\* do_chat from the parsed options up to the model call (786-859); the CLI
\* holds an API key, so the "No API key configured" return (725) is not taken
Chat(opt, selected, msg) ==
  LET a == Assemble(opt # "-n", selected, msg)
      total == TotalTokens(a.context_tokens, msg)
  IN  /\ pc = "idle"
      /\ turns < MaxTurns
      /\ turns' = turns + 1
      /\ option' = opt
      /\ message' = msg
      /\ selected_files' = selected
      /\ context' = a.context
      /\ context_tokens' = a.context_tokens
      /\ included_files' = a.included_files
      /\ decisions' = a.decisions
      /\ IF a.rejected
           THEN /\ outcome' = "rejected"
                /\ total_tokens' = 0
                /\ pc' = "returned"
                /\ UNCHANGED <<model_calls, request>>
           ELSE /\ total_tokens' = total
                /\ IF TooLarge(total)
                     THEN /\ outcome' = "too_large"
                          /\ pc' = "returned"
                          /\ UNCHANGED <<model_calls, request>>
                     ELSE /\ outcome' = "dispatched"
                          /\ pc' = "request"
                          /\ model_calls' = model_calls + 1
                          /\ request' = Payload(msg, a.context)
      /\ UNCHANGED <<extractVars, estimateVars, apiVars, formatVars, fsVars, current_project, now>>

\* chat <message>
ChatAll(msg) == Chat("plain", <<>>, msg)

\* chat -n <message>
ChatNoContext(msg) == Chat("-n", <<>>, msg)

\* chat -s file1,file2 -- <message>
ChatSelective(selected, msg) == Chat("-s", selected, msg)

\* chat -f <filename>: the message is read from a project file (750-760)
ChatFromFile(filename) ==
  IF current_project = NoProject
    THEN /\ pc = "idle"
         /\ turns < MaxTurns
         /\ turns' = turns + 1
         /\ pc' = "returned"
         /\ option' = "-f"
         /\ outcome' = "no_project"
         /\ UNCHANGED <<extractVars, estimateVars, apiVars, formatVars, fsVars, current_project, now, model_calls, locals>>
    ELSE LET r == get_file_content(current_project, filename)
         IN  IF r.raised \/ r.text.chars = 0
               THEN /\ pc = "idle"
                    /\ turns < MaxTurns
                    /\ turns' = turns + 1
                    /\ pc' = "returned"
                    /\ option' = "-f"
                    /\ outcome' = IF r.raised THEN "file_error" ELSE "no_message"
                    /\ UNCHANGED <<extractVars, estimateVars, apiVars, formatVars, fsVars, current_project, now, model_calls,
                                   locals>>
               ELSE Chat("-f", <<>>, r.text)

\* --------------------------------------------- ArtifactManager (556-620)
Title(base, ordinal) == [base |-> base, ordinal |-> ordinal]

\* lines[0].strip('# ').replace('_', ' ').title() of the first lines that occur
CommentTitle(line) ==
  CASE line = "# my_helper" -> "My Helper"
    [] OTHER -> line

\* mutant: the Code_Artifact ordinal counts on over the passes
extract_title_counting(block, index) ==
  IF block.language = "python" /\ block.class_name # ""
    THEN Title(block.class_name, 0)
    ELSE IF block.language = "python" /\ block.func_name # ""
      THEN Title(block.func_name, 0)
      ELSE IF block.comment # ""
        THEN Title(CommentTitle(block.comment), 0)
        ELSE Title("Code_Artifact", index + 1 + passes)

\* mutant: the declaration that comes first in the body gives the title
extract_title_earliest(block, index) ==
  IF block.language = "python" /\ block.first_decl = "class"
    THEN Title(block.class_name, 0)
    ELSE IF block.language = "python" /\ block.first_decl = "def"
      THEN Title(block.func_name, 0)
      ELSE IF block.comment # ""
        THEN Title(CommentTitle(block.comment), 0)
        ELSE Title("Code_Artifact", index + 1)

\* ArtifactManager._extract_title: re.search for "class" first, for "def"
\* only when no "class" is found; index is the enumerate index of the match
extract_title(block, index) ==
  IF block.language = "python" /\ block.class_name # ""
    THEN Title(block.class_name, 0)
    ELSE IF block.language = "python" /\ block.func_name # ""
      THEN Title(block.func_name, 0)
      ELSE IF block.comment # ""
        THEN Title(CommentTitle(block.comment), 0)
        ELSE Title("Code_Artifact", index + 1)

\* title.lower().replace(' ', '_') of the titles that occur
FileStem(base) ==
  CASE base = "Foo" -> "foo"
    [] base = "Baz" -> "baz"
    [] base = "My Helper" -> "my_helper"
    [] base = "Code_Artifact" -> "code_artifact"
    [] OTHER -> base

\* ArtifactManager.create_artifact: the record it returns; the file it
\* writes is the record's filename
create_artifact(block, language, title) ==
  [filename |-> [stem |-> FileStem(title.base), ordinal |-> title.ordinal,
                 ts |-> now, language |-> language],
   language |-> language, title |-> title, created |-> now]

\* open(filepath, 'w') and f.write(content) of create_artifact
FileWrite(block, record) == [filename |-> record.filename, content |-> block]

\* The fences of a response text in document order: each with the tag that
\* follows it and the text up to the next fence. No tag follows a closing
\* fence.
ClosingFence == [tag |-> "", code |-> Block("", 0, "", "", "")]
OpeningFence(block) == [tag |-> block.language, code |-> block]

RECURSIVE Fences(_)
Fences(text) ==
  IF text = <<>> THEN <<>>
  ELSE (IF Head(text).closed
          THEN <<OpeningFence(Head(text).block), ClosingFence>>
          ELSE <<OpeningFence(Head(text).block)>>)
       \o Fences(Tail(text))

\* mutant: the tag is optional
OpensAnyTag(fence) == TRUE

\* ```(\w+)\n : a match starts at a fence followed by a non-empty tag
Opens(fence) == fence.tag # ""

\* mutant: the end of the text closes a segment too
ClosesAtEnd(fences, i) == TRUE

\* (.*?)``` : the body runs to the next fence, there must be one
Closes(fences, i) == i < Len(fences)

\* re.finditer(code_pattern, response_text, re.DOTALL) from fence i on: the
\* non-overlapping matches, left to right; the fence that ends a match is
\* consumed by it
RECURSIVE ScanFrom(_, _)
ScanFrom(fences, i) ==
  IF i > Len(fences) THEN <<>>
  ELSE IF Opens(fences[i]) /\ Closes(fences, i)
    THEN <<[fences[i].code EXCEPT !.language = fences[i].tag]>>
         \o ScanFrom(fences, i + 2)
    ELSE ScanFrom(fences, i + 1)

finditer(text) == ScanFrom(Fences(text), 1)

\* mutant: a body of exactly 100 characters is skipped too
TooSmallAtLimit(code) == code.strip_len <= MinCodeLen

\* if len(code.strip()) < 100: continue
TooSmall(code) == code.strip_len < MinCodeLen

\* mutant: the title index counts the matches that were not skipped
RECURSIVE ExtractFromRenumbered(_, _)
ExtractFromRenumbered(matches, i) ==
  IF i > Len(matches) THEN <<>>
  ELSE IF TooSmall(matches[i])
    THEN ExtractFromRenumbered(matches, i + 1)
    ELSE <<create_artifact(matches[i], matches[i].language,
             extract_title(matches[i],
                           Cardinality({j \in 1..(i - 1) : ~TooSmall(matches[j])})))>>
         \o ExtractFromRenumbered(matches, i + 1)

\* ArtifactManager.extract_code_blocks over matches i, i+1, ...
RECURSIVE ExtractFrom(_, _)
ExtractFrom(matches, i) ==
  IF i > Len(matches) THEN <<>>
  ELSE IF TooSmall(matches[i])
    THEN ExtractFrom(matches, i + 1)
    ELSE <<create_artifact(matches[i], matches[i].language,
                           extract_title(matches[i], i - 1))>>
         \o ExtractFrom(matches, i + 1)

\* the files that loop writes, in the order of the create_artifact calls
RECURSIVE WritesFrom(_, _)
WritesFrom(matches, i) ==
  IF i > Len(matches) THEN <<>>
  ELSE IF TooSmall(matches[i])
    THEN WritesFrom(matches, i + 1)
    ELSE <<FileWrite(matches[i],
                     create_artifact(matches[i], matches[i].language,
                                     extract_title(matches[i], i - 1)))>>
         \o WritesFrom(matches, i + 1)

extract_code_blocks(response) == ExtractFrom(finditer(response), 1)

WrittenFiles(records) == {records[i].filename : i \in DOMAIN records}

\* artifact_manager.extract_code_blocks(response_text): the returned list
\* and the files written
ExtractPass ==
  /\ pc = "idle"
  /\ current_project # NoProject
  /\ passes < MaxPasses
  /\ passes' = passes + 1
  /\ extracted' = extract_code_blocks(response_text)
  /\ writes' = writes \o WritesFrom(finditer(response_text), 1)
  /\ artifacts' = [artifacts EXCEPT ![current_project] =
                     @ \cup WrittenFiles(extract_code_blocks(response_text))]
  /\ UNCHANGED <<projects_base, files, conversations, current_project, now, pc,
                 turns, model_calls, chatVars, response_text, estimateVars, apiVars, formatVars>>

\* EnhancedProject.save_enhanced_conversation: the document written to
\* conversation_<timestamp>.json
\* the dict of lines 635-645; the response is kept by its segments, so of the
\* 'metadata' entry only has_code_artifacts is computed
Conversation(msg, response, records) ==
  [timestamp |-> now, message |-> msg, response |-> response,
   artifacts |-> records,
   metadata |-> [has_code_artifacts |-> Len(records) > 0]]

\* mutant: the document lists the artifacts by filename only
json_dump_filenames(dict) ==
  <<<<"timestamp", dict.timestamp>>, <<"message", dict.message>>,
    <<"response", dict.response>>,
    <<"artifacts", [k \in DOMAIN dict.artifacts |-> dict.artifacts[k].filename]>>,
    <<"metadata", dict.metadata>>>>

\* json.dump(conversation, f): the members of the object, in insertion order
json_dump(dict) ==
  <<<<"timestamp", dict.timestamp>>, <<"message", dict.message>>,
    <<"response", dict.response>>, <<"artifacts", dict.artifacts>>,
    <<"metadata", dict.metadata>>>>

\* json.load(f): a dict of the members read; of two equal keys the later
\* member stays
json_load(members) ==
  [key \in {members[i][1] : i \in DOMAIN members} |->
     members[CHOOSE i \in DOMAIN members :
               /\ members[i][1] = key
               /\ \A j \in DOMAIN members : j > i => members[j][1] # key][2]]

ConversationDoc(msg, response, records) ==
  [ts |-> now, text |-> json_dump(Conversation(msg, response, records))]

save_enhanced_conversation(docs, msg, response, records) ==
  {d \in docs : d.ts # now} \cup {ConversationDoc(msg, response, records)}

\* ------------------------------------------ the model boundary (851-897)
\* mutant: the conversation record is written before the artifacts are
\* extracted, with an empty artifact list
ModelReturnSavesFirst(response) ==
  /\ pc = "request"
  /\ pc' = "returned"
  /\ outcome' = "done"
  /\ IF current_project # NoProject
       THEN LET records == extract_code_blocks(response)
            IN  /\ artifacts' = [artifacts EXCEPT ![current_project] =
                                   @ \cup WrittenFiles(records)]
                /\ conversations' = [conversations EXCEPT ![current_project] =
                     save_enhanced_conversation(@, message, response, <<>>)]
                /\ response_text' = response
                /\ extracted' = records
                /\ writes' = writes \o WritesFrom(finditer(response), 1)
                /\ passes' = passes + 1
       ELSE UNCHANGED <<artifacts, conversations, extractVars>>
  /\ UNCHANGED <<estimateVars, apiVars, formatVars, projects_base, files, current_project, now, turns, model_calls,
                 request, option, message, selected_files, context,
                 context_tokens, total_tokens, included_files, decisions>>

\* create_message_with_context returned response: extraction, persistence
ModelReturn(response) ==
  /\ pc = "request"
  /\ pc' = "returned"
  /\ outcome' = "done"
  /\ IF current_project # NoProject
       THEN LET records == extract_code_blocks(response)
            IN  /\ artifacts' = [artifacts EXCEPT ![current_project] =
                                   @ \cup WrittenFiles(records)]
                /\ conversations' = [conversations EXCEPT ![current_project] =
                     save_enhanced_conversation(@, message, response, records)]
                /\ response_text' = response
                /\ extracted' = records
                /\ writes' = writes \o WritesFrom(finditer(response), 1)
                /\ passes' = passes + 1
       ELSE UNCHANGED <<artifacts, conversations, extractVars>>
  /\ UNCHANGED <<estimateVars, apiVars, formatVars, projects_base, files, current_project, now, turns, model_calls,
                 request, option, message, selected_files, context,
                 context_tokens, total_tokens, included_files, decisions>>

\* mutant: the failed turn still writes its conversation record
ModelRaiseSaves ==
  /\ pc = "request"
  /\ pc' = "returned"
  /\ outcome' = "failed"
  /\ IF current_project # NoProject
       THEN conversations' = [conversations EXCEPT ![current_project] =
              save_enhanced_conversation(@, message, <<>>, <<>>)]
       ELSE UNCHANGED conversations
  /\ UNCHANGED <<extractVars, estimateVars, apiVars, formatVars, projects_base, files, artifacts, current_project, now, turns,
                 model_calls, request, option, message, selected_files, context,
                 context_tokens, total_tokens, included_files, decisions>>

\* create_message_with_context raised: "except Exception" prints the error
ModelRaise ==
  /\ pc = "request"
  /\ pc' = "returned"
  /\ outcome' = "failed"
  /\ UNCHANGED <<extractVars, estimateVars, apiVars, formatVars, fsVars, current_project, now, turns, model_calls, request,
                 option, message, selected_files, context, context_tokens,
                 total_tokens, included_files, decisions>>

\* ------------------------------------------------------- other commands
\* Project.sync_files without its first loop: keys of deleted files stay
sync_files_keeps_stale(p) ==
  LET fresh == {n \in DOMAIN files[p] : IsFile(p, n) /\ n \notin metadata[p]}
  IN  [keys |-> metadata[p] \cup fresh, synced |-> fresh]

\* Project.sync_files: the keys of metadata['files'] afterwards, and the
\* names it returns
sync_files(p) ==
  LET files_to_remove == {k \in metadata[p] : ~Exists(p, k)}
      fresh == {n \in DOMAIN files[p] : IsFile(p, n) /\ n \notin metadata[p]}
  IN  [keys |-> (metadata[p] \ files_to_remove) \cup fresh, synced |-> fresh]

\* EnhancedClaudeCLI.do_create
DoCreate(name) ==
  /\ pc = "idle"
  /\ projects_base' = projects_base \cup {name}
  /\ current_project' = name
  /\ metadata' = [metadata EXCEPT ![name] = sync_files(name).keys]
  /\ UNCHANGED <<extractVars, estimateVars, formatVars, files, artifacts,
                 conversations, now, pc, turns, model_calls, chatVars,
                 returned, api_calls>>

\* EnhancedClaudeCLI.do_open
DoOpen(name) ==
  /\ pc = "idle"
  /\ name \in projects_base
  /\ current_project' = name
  /\ metadata' = [metadata EXCEPT ![name] = sync_files(name).keys]
  /\ UNCHANGED <<extractVars, estimateVars, formatVars, fsVars, now, pc, turns,
                 model_calls, chatVars, returned, api_calls>>

\* the files a user may add: two of them are named a.py
SourceFiles ==
  {[name |-> "a.py", content |-> DiskContent["a.py"]],
   [name |-> "a.py", content |-> DiskContent["b.py"]],
   [name |-> "b.py", content |-> DiskContent["b.py"]]}

\* dest of Project.add_file
Dest(p, name) == IF Exists(p, name) THEN StampedName(name, now) ELSE name

\* shutil.copy2(filepath, dest)
Copy(store, dest, content) ==
  [n \in DOMAIN store \cup {dest} |-> IF n = dest THEN content ELSE store[n]]

\* EnhancedClaudeCLI.do_add / Project.add_file
DoAdd(src) ==
  /\ pc = "idle"
  /\ current_project # NoProject
  /\ api_calls < MaxCalls
  /\ LET dest == Dest(current_project, src.name)
     IN  /\ files' = [files EXCEPT
                        ![current_project] = Copy(@, dest, src.content)]
         /\ metadata' = [metadata EXCEPT ![current_project] = @ \cup {dest}]
         /\ returned' = [call |-> "add_file", value |-> dest]
  /\ api_calls' = api_calls + 1
  /\ UNCHANGED <<extractVars, estimateVars, formatVars, projects_base,
                 artifacts, conversations, current_project, now, pc, turns,
                 model_calls, chatVars>>

\* filepath.unlink() of Project.remove_file
Unlink(store, name) ==
  [n \in DOMAIN store |-> IF n = name THEN Absent ELSE store[n]]

\* EnhancedClaudeCLI.do_remove / Project.remove_file
DoRemove(filename) ==
  /\ pc = "idle"
  /\ current_project # NoProject
  /\ filename # DirName
  /\ Exists(current_project, filename)
  /\ LET t == Target(current_project, filename)
     IN  IF t.dir = "artifacts"
           THEN /\ artifacts' = [artifacts EXCEPT ![t.project] = @ \ {t.name}]
                /\ UNCHANGED files
           ELSE /\ files' = [files EXCEPT ![t.project] = Unlink(@, t.name)]
                /\ UNCHANGED artifacts
  /\ metadata' = [metadata EXCEPT ![current_project] = @ \ {filename}]
  /\ UNCHANGED <<extractVars, estimateVars, formatVars, projects_base,
                 conversations, current_project, now, pc, turns, model_calls,
                 chatVars, returned, api_calls>>

\* EnhancedClaudeCLI.do_update
DoUpdate ==
  /\ pc = "idle"
  /\ current_project # NoProject
  /\ api_calls < MaxCalls
  /\ metadata' = [metadata EXCEPT
                    ![current_project] = sync_files(current_project).keys]
  /\ returned' = [call |-> "sync_files",
                  value |-> sync_files(current_project).synced]
  /\ api_calls' = api_calls + 1
  /\ UNCHANGED <<extractVars, estimateVars, formatVars, fsVars, current_project,
                 now, pc, turns, model_calls, chatVars>>

\* a file is put into the files directory of p by hand
ManuallyAdded(p, name) ==
  /\ pc = "idle"
  /\ api_calls < MaxCalls
  /\ ~Exists(p, name)
  /\ files' = [files EXCEPT ![p] = Copy(@, name, DiskContent[name])]
  /\ api_calls' = api_calls + 1
  /\ UNCHANGED <<extractVars, estimateVars, formatVars, projects_base,
                 artifacts, conversations, current_project, now, pc, turns,
                 model_calls, chatVars, metadata, returned>>

\* a file of the files directory of p no longer exists
NoLongerExists(p, name) ==
  /\ pc = "idle"
  /\ api_calls < MaxCalls
  /\ IsFile(p, name)
  /\ files' = [files EXCEPT ![p] = Unlink(@, name)]
  /\ api_calls' = api_calls + 1
  /\ UNCHANGED <<extractVars, estimateVars, formatVars, projects_base,
                 artifacts, conversations, current_project, now, pc, turns,
                 model_calls, chatVars, metadata, returned>>

\* input("...").lower()
Answers == {"yes", "YES", "no", ""}
Lower(answer) == IF answer = "YES" THEN "yes" ELSE answer

\* EnhancedClaudeCLI.do_clear_artifacts
DoClearArtifacts(answer) ==
  /\ pc = "idle"
  /\ current_project # NoProject
  /\ artifacts[current_project] # {}
  /\ artifacts' = IF Lower(answer) = "yes"
                    THEN [artifacts EXCEPT ![current_project] = {}]
                    ELSE artifacts
  /\ UNCHANGED <<extractVars, estimateVars, apiVars, formatVars, projects_base,
                 files, conversations, current_project, now, pc, turns,
                 model_calls, chatVars>>

\* do_chat returns and cmdloop prompts for the next command: the locals of
\* the finished command are gone
Prompt ==
  /\ pc = "returned"
  /\ pc' = "idle"
  /\ request' = NoRequest
  /\ option' = "none"
  /\ message' = EmptyText
  /\ selected_files' = <<>>
  /\ context' = EmptyContext
  /\ context_tokens' = 0
  /\ total_tokens' = 0
  /\ included_files' = <<>>
  /\ decisions' = <<>>
  /\ outcome' = "none"
  /\ UNCHANGED <<extractVars, estimateVars, apiVars, formatVars, fsVars, current_project, now, turns, model_calls>>

\* do_exit ends cmdloop and main() is run again: a new EnhancedClaudeCLI
\* with no project open; the directories on disk stay
Restart ==
  /\ pc = "idle"
  /\ passes < MaxPasses
  /\ current_project' = NoProject
  /\ turns' = 0
  /\ model_calls' = 0
  /\ UNCHANGED <<extractVars, estimateVars, apiVars, formatVars, fsVars, now, pc, chatVars>>

\* a second passes on the wall clock
Tick ==
  /\ now < MaxTime
  /\ now' = now + 1
  /\ UNCHANGED <<extractVars, estimateVars, apiVars, formatVars, fsVars, current_project, pc, turns, model_calls, chatVars>>

\* ------------------------------------------------------------------ spec
\* a CLI at its prompt that has handled no chat command
AtPrompt ==
  /\ pc = "idle"
  /\ turns = 0
  /\ model_calls = 0
  /\ request = NoRequest
  /\ option = "none"
  /\ message = EmptyText
  /\ selected_files = <<>>
  /\ context = EmptyContext
  /\ context_tokens = 0
  /\ total_tokens = 0
  /\ included_files = <<>>
  /\ decisions = <<>>
  /\ outcome = "none"

NothingExtracted ==
  /\ extracted = <<>>
  /\ writes = <<>>
  /\ passes = 0

NothingEstimated ==
  /\ est_text = <<>>
  /\ est_tokens = 0
  /\ est_calls = 0

NothingReturned == [call |-> "none", value |-> {}]

\* the regular files of the files directory of p
RegularFiles(p) == {n \in DOMAIN files[p] : files[p][n] # Absent}

\* metadata.json lists the files of the directory; no call yet
MetadataInSync ==
  /\ metadata = [p \in DOMAIN files |-> RegularFiles(p)]
  /\ returned = NothingReturned
  /\ api_calls = 0

NotFormatted == [called |-> FALSE, lines |-> <<>>]

NothingFormatted ==
  /\ fmt_files = <<>>
  /\ formatted = NotFormatted

Init ==
  /\ projects_base \in SUBSET Projects
  /\ files \in [Projects -> Stores]
  /\ \A p \in Projects : p \notin projects_base => files[p] = EmptyStore
  /\ artifacts = [p \in Projects |-> {}]
  /\ conversations = [p \in Projects |-> {}]
  /\ current_project = NoProject
  /\ now = 0
  /\ AtPrompt
  /\ response_text = <<>>
  /\ NothingExtracted
  /\ NothingEstimated
  /\ MetadataInSync
  /\ NothingFormatted

Next ==
  \/ \E msg \in Messages : ChatAll(msg)
  \/ \E msg \in Messages : ChatNoContext(msg)
  \/ \E sel \in SelectedLists, msg \in Messages : ChatSelective(sel, msg)
  \/ \E f \in SelNames : ChatFromFile(f)
  \/ \E r \in Responses : ModelReturn(r)
  \/ ModelRaise
  \/ \E p \in Projects : DoCreate(p)
  \/ \E p \in Projects : DoOpen(p)
  \/ \E f \in FileNames : DoRemove(f)
  \/ Prompt
  \/ Tick

Spec == Init /\ [][Next]_vars

\* ------------------------------------------ chat turns over several runs
\* an existing project without files; no project open
InitTurns ==
  /\ projects_base = Projects
  /\ files = [p \in Projects |-> EmptyStore]
  /\ artifacts = [p \in Projects |-> {}]
  /\ conversations = [p \in Projects |-> {}]
  /\ current_project = NoProject
  /\ now = 0
  /\ AtPrompt
  /\ response_text = <<>>
  /\ NothingExtracted
  /\ NothingEstimated
  /\ MetadataInSync
  /\ NothingFormatted

NextTurns ==
  \/ \E p \in Projects : DoOpen(p)
  \/ ChatNoContext(Msg100)
  \/ ChatAll(Msg100)
  \/ \E r \in Responses : ModelReturn(r)
  \/ ModelRaise
  \/ Prompt
  \/ Restart
  \/ Tick

SpecTurns == InitTurns /\ [][NextTurns]_vars

\* ------------------------------------- extract_code_blocks on any response
\* an open project with empty directories and a response text to extract
InitExtract ==
  /\ projects_base = Projects
  /\ files = [p \in Projects |-> EmptyStore]
  /\ artifacts = [p \in Projects |-> {}]
  /\ conversations = [p \in Projects |-> {}]
  /\ current_project \in Projects
  /\ now = 0
  /\ AtPrompt
  /\ response_text \in ResponseTexts
  /\ NothingExtracted
  /\ NothingEstimated
  /\ MetadataInSync
  /\ NothingFormatted

NextExtract ==
  \/ ExtractPass
  \/ Tick

SpecExtract == InitExtract /\ [][NextExtract]_vars

\* ------------------------------------------- the artifacts of a project
\* an open project with some files and a response text to extract
InitArtifacts ==
  /\ projects_base = Projects
  /\ files \in [Projects -> Stores]
  /\ artifacts = [p \in Projects |-> {}]
  /\ conversations = [p \in Projects |-> {}]
  /\ current_project \in Projects
  /\ now = 0
  /\ AtPrompt
  /\ response_text \in Responses
  /\ NothingExtracted
  /\ NothingEstimated
  /\ MetadataInSync
  /\ NothingFormatted

NextArtifacts ==
  \/ ExtractPass
  \/ \E answer \in Answers : DoClearArtifacts(answer)
  \/ \E f \in FileNames \cup {ArtifactPath} : DoRemove(f)
  \/ Tick

SpecArtifacts == InitArtifacts /\ [][NextArtifacts]_vars

\* ------------------------------------------------ two projects side by side
\* the lists of filenames given to chat -s: names of the open project and a
\* path that leads into the files directory of p2
PathLists == {<<"a.py">>, <<OtherProjectPath>>, <<"b.py", OtherProjectPath>>}

\* two existing projects with a.py, b.py, both or neither; no project open
InitProjects ==
  /\ projects_base = AllProjects
  /\ files \in [AllProjects -> {s \in Stores : s["c.py"] = Absent}]
  /\ artifacts = [p \in AllProjects |-> {}]
  /\ conversations = [p \in AllProjects |-> {}]
  /\ current_project = NoProject
  /\ now = 0
  /\ AtPrompt
  /\ response_text = <<>>
  /\ NothingExtracted
  /\ NothingEstimated
  /\ MetadataInSync
  /\ NothingFormatted

NextProjects ==
  \/ \E p \in AllProjects : DoCreate(p)
  \/ \E p \in AllProjects : DoOpen(p)
  \/ \E src \in SourceFiles : DoAdd(src)
  \/ \E f \in FileNames : DoRemove(f)
  \/ ChatAll(Msg100)
  \/ ChatNoContext(Msg100)
  \/ \E sel \in PathLists : ChatSelective(sel, Msg100)
  \/ ModelRaise
  \/ Prompt

SpecProjects == InitProjects /\ [][NextProjects]_vars

\* --------------------------------------- the files directory and metadata
\* an existing project with some files, listed in its metadata; not yet open
InitFiles ==
  /\ projects_base = Projects
  /\ files \in [Projects -> Stores]
  /\ artifacts = [p \in Projects |-> {}]
  /\ conversations = [p \in Projects |-> {}]
  /\ current_project = NoProject
  /\ now = 0
  /\ AtPrompt
  /\ response_text = <<>>
  /\ NothingExtracted
  /\ NothingEstimated
  /\ MetadataInSync
  /\ NothingFormatted

NextFiles ==
  \/ \E p \in Projects : DoOpen(p)
  \/ \E src \in SourceFiles : DoAdd(src)
  \/ \E f \in FileNames \cup StampedNames : DoRemove(f)
  \/ DoUpdate
  \/ \E p \in Projects, n \in FileNames : ManuallyAdded(p, n)
  \/ \E p \in Projects, n \in FileNames \cup StampedNames : NoLongerExists(p, n)
  \/ Tick

SpecFiles == InitFiles /\ [][NextFiles]_vars

\* ------------------------------- _format_file_context on any file contents
\* file contents by their lines, content.split('\n'): a statement, nothing,
\* blanks, a line that looks like a file marker, an empty line in between
FileContents ==
  {<<"x = 1">>, <<"">>, <<"  ">>,
   <<"x = 1", "--- File: fake.py ---", "y = 2">>,
   <<"x = 1", "", "y = 2">>}

\* the files of a directory in sorted order, each with its content
RECURSIVE Directories(_)
Directories(k) ==
  IF k > Len(SortedNames) THEN {<<>>}
  ELSE LET rest == Directories(k + 1)
       IN  rest \cup {<<[name |-> SortedNames[k], lines |-> c]>> \o d :
                        c \in FileContents, d \in rest}

\* f"\n--- File: {filepath.name} ---\n" without its line breaks
MarkerLine(name) == "--- File: " \o name \o " ---"
MarkerNames == FileNames \cup {"fake.py"}

\* line.startswith('--- File:') and line.endswith('---')
IsMarkerLine(line) == \E n \in MarkerNames : line = MarkerLine(n)

\* line.replace('--- File:', '').replace('---', '').strip()
MarkerName(line) == CHOOSE n \in MarkerNames : line = MarkerLine(n)

\* line.strip()
Strip(line) == IF line \in {"", "  "} THEN "" ELSE line

\* get_project_context(...).split('\n'): the header, per file an empty
\* line, the marker and the content, and the empty line after the last "\n"
RECURSIVE SectionLines(_)
SectionLines(fs) ==
  IF fs = <<>> THEN <<>>
  ELSE <<"", MarkerLine(Head(fs).name)>> \o Head(fs).lines
         \o SectionLines(Tail(fs))

ContextLines(p, fs) ==
  <<"Project: " \o p, "====", "Files in this project:">>
    \o SectionLines(fs)
    \o (IF fs = <<>> THEN <<"(No files in project yet)">> ELSE <<>>)
    \o <<"">>

\* the four appends of lines 534-537 and 548-551; <fence> stands for the
\* three backquotes of a code fence
FileBlock(current_file, file_content) ==
  <<"**File: " \o current_file \o "**", "<fence>python">> \o file_content
    \o <<"<fence>">>

NoFile == "<no file>"

\* "if current_file and file_content"
Flushed(current_file, file_content) ==
  current_file # NoFile /\ file_content # <<>>

\* one pass of "for line in lines" (530-544)
FormatStep(st, line) ==
  IF IsMarkerLine(line)
    THEN [formatted |-> IF Flushed(st.current_file, st.file_content)
                          THEN st.formatted
                                 \o FileBlock(st.current_file, st.file_content)
                                 \o <<"">>
                          ELSE st.formatted,
          current_file |-> MarkerName(line),
          file_content |-> <<>>]
    ELSE IF st.current_file # NoFile /\ Strip(line) # ""
      THEN [st EXCEPT !.file_content = Append(@, line)]
      ELSE st

RECURSIVE FormatLoop(_, _)
FormatLoop(st, lines) ==
  IF lines = <<>> THEN st
  ELSE FormatLoop(FormatStep(st, Head(lines)), Tail(lines))

\* EnhancedAnthropicClient._format_file_context: the lines it joins
format_file_context(lines) ==
  LET st == FormatLoop([formatted |-> <<>>, current_file |-> NoFile,
                        file_content |-> <<>>], lines)
  IN  IF Flushed(st.current_file, st.file_content)
        THEN st.formatted \o FileBlock(st.current_file, st.file_content)
        ELSE st.formatted

\* create_message_with_context formats the context of the open project
Format ==
  /\ ~formatted.called
  /\ current_project # NoProject
  /\ formatted' = [called |-> TRUE,
                   lines |-> format_file_context(
                               ContextLines(current_project, fmt_files))]
  /\ UNCHANGED <<fsVars, current_project, now, pc, turns, model_calls,
                 chatVars, extractVars, estimateVars, apiVars, fmt_files>>

\* an open project whose files have any of the contents
InitFormat ==
  /\ projects_base = Projects
  /\ files = [p \in Projects |-> EmptyStore]
  /\ artifacts = [p \in Projects |-> {}]
  /\ conversations = [p \in Projects |-> {}]
  /\ current_project \in Projects
  /\ now = 0
  /\ AtPrompt
  /\ response_text = <<>>
  /\ NothingExtracted
  /\ NothingEstimated
  /\ MetadataInSync
  /\ fmt_files \in Directories(1)
  /\ formatted = NotFormatted

NextFormat == Format

SpecFormat == InitFormat /\ [][NextFormat]_vars

\* --------------------------------------------- estimate_tokens on any str
\* estimate_tokens(est_text)
Estimate ==
  /\ est_calls = 0
  /\ est_tokens' = estimate_tokens(Measure(est_text))
  /\ est_calls' = est_calls + 1
  /\ UNCHANGED <<fsVars, current_project, now, pc, turns, model_calls,
                 chatVars, extractVars, apiVars, formatVars, est_text>>

\* estimate_tokens(est_text + suffix)
EstimateLonger(suffix) ==
  /\ est_calls > 0
  /\ suffix # <<>>
  /\ Len(est_text) + Len(suffix) <= MaxLen
  /\ est_text' = est_text \o suffix
  /\ est_tokens' = estimate_tokens(Measure(est_text \o suffix))
  /\ est_calls' = est_calls + 1
  /\ UNCHANGED <<fsVars, current_project, now, pc, turns, model_calls,
                 chatVars, extractVars, apiVars, formatVars>>

InitEstimate ==
  /\ projects_base = {}
  /\ files = [p \in Projects |-> EmptyStore]
  /\ artifacts = [p \in Projects |-> {}]
  /\ conversations = [p \in Projects |-> {}]
  /\ current_project = NoProject
  /\ now = 0
  /\ AtPrompt
  /\ response_text = <<>>
  /\ NothingExtracted
  /\ est_text \in Strings
  /\ est_tokens = 0
  /\ est_calls = 0
  /\ MetadataInSync
  /\ NothingFormatted

NextEstimate ==
  \/ Estimate
  \/ \E suffix \in Strings : EstimateLonger(suffix)

SpecEstimate == InitEstimate /\ [][NextEstimate]_vars

\* ---------------------------------------------------------------- claims
\* what the retained locals say about the chat command that just ran
Handled == outcome \notin {"none", "no_project", "file_error", "no_message"}
AllFilesMode == Handled /\ option \in {"plain", "-f"} /\ current_project # NoProject
SelectiveMode == Handled /\ option = "-s" /\ current_project # NoProject
NoContextMode == Handled /\ option = "-n"
NoProjectMode == Handled /\ option # "-n" /\ current_project = NoProject
FinalChecked == outcome \in {"too_large", "dispatched", "done", "failed"}
Dispatched == outcome \in {"dispatched", "done", "failed"}

RECURSIVE SumSeq(_)
SumSeq(ns) == IF ns = <<>> THEN 0 ELSE Head(ns) + SumSeq(Tail(ns))

\* C1: in every mode the model boundary is invoked only when the final total
\* context_tokens + estimate(message) + 2,000 is at most 200,000; a final
\* total above 200,000 ends the command as "request too large" with no call.
C1_FinalCheckGuardsModel ==
  /\ Dispatched =>
       /\ total_tokens = context_tokens + estimate_tokens(message) + Overhead
       /\ total_tokens <= Ceiling
       /\ request = Payload(message, context)
  /\ (FinalChecked /\ context_tokens + estimate_tokens(message) + Overhead > Ceiling) =>
       /\ outcome = "too_large"
       /\ pc = "returned"
       /\ request = NoRequest
  /\ (pc = "request") = (outcome = "dispatched")
  /\ ~Dispatched => request = NoRequest

C1_Witness ==
  /\ NoContextMode
  /\ outcome = "too_large"
  /\ total_tokens > Ceiling
  /\ model_calls = 0

\* C2: all-files mode is fail-closed: when the per-file estimates plus the
\* message estimate plus 2,000 exceed 200,000 the command is rejected, no
\* model request is made and nothing is sent; a dispatched all-files request
\* carries a block for every file of the project, in order, with its content.
PerFileEstimates(p) ==
  SumSeq([i \in DOMAIN list_files(p) |->
            estimate_tokens(get_file_content(p, list_files(p)[i]).text)])

CarriesEveryFile(ctx, p) ==
  /\ ctx.kind = "all"
  /\ BlockNames(ctx.blocks) = list_files(p)
  /\ \A i \in DOMAIN ctx.blocks :
       ctx.blocks[i].text = files[p][ctx.blocks[i].name].text

C3_RejectedExactlyAboveCeiling ==
  AllFilesMode =>
    /\ (outcome = "rejected") =
         (estimate_tokens(ContextText(context)) + estimate_tokens(message)
            + Overhead > Ceiling)
    /\ (outcome # "rejected") = Dispatched

\* C4: selective mode processes the list in order, skips an over-budget file
\* without rejecting the request, still attempts every later file, and ends
\* with every listed file included, skipped or reported missing; the included
\* files are the listed files that were included, in the listed order.
Verdicts(decs) == [i \in DOMAIN decs |-> decs[i].verdict]

IncludedBefore(decs, i) ==
  SumSeq([j \in 1..(i - 1) |->
            IF decs[j].verdict = "included" THEN decs[j].file_tokens ELSE 0])

C4_SelectiveSkipAndContinue ==
  SelectiveMode =>
    /\ outcome # "rejected"
    /\ Len(decisions) = Len(selected_files)
    /\ \A i \in DOMAIN decisions :
         /\ decisions[i].name = selected_files[i]
         /\ decisions[i].verdict \in {"included", "skipped", "error"}
         /\ decisions[i].before = IncludedBefore(decisions, i)
         /\ (decisions[i].verdict = "included") =
              (/\ Exists(current_project, selected_files[i])
               /\ decisions[i].before + decisions[i].file_tokens
                    + estimate_tokens(message) <= SelectiveLimit)
    /\ included_files =
         SelectSeq(selected_files,
                   LAMBDA n : \E i \in DOMAIN decisions :
                                /\ decisions[i].name = n
                                /\ decisions[i].verdict = "included")
    /\ BlockNames(context.blocks) = included_files

C4_Witness ==
  /\ SelectiveMode
  /\ Len(selected_files) = 3
  /\ Verdicts(decisions) = <<"included", "skipped", "included">>
  /\ decisions[3].file_tokens < decisions[2].file_tokens
  /\ included_files = <<selected_files[1], selected_files[3]>>

\* C5: in selective mode a file is skipped exactly when the running total of
\* the included files plus its estimate plus the message estimate plus 2,000
\* would exceed 200,000.
C5_SkippedExactlyAboveCeiling ==
  SelectiveMode =>
    \A i \in DOMAIN decisions :
      IsFile(current_project, selected_files[i]) =>
        (decisions[i].verdict = "skipped") =
          (decisions[i].before + decisions[i].file_tokens
             + estimate_tokens(message) + Overhead > Ceiling)

\* C6: selective mode with A (10,000 tokens), B (5,000), C (190,000) in that
\* order and a 100-token message: A and B are included, C is skipped, and the
\* total token estimate is 17,100: 15,000 of context, 100 of message and the
\* 2,000 overhead (C6_Amended). C6_Original states the total as 15,100.
SectionTokens(p, n) ==
  estimate_tokens(FileSection(n, get_file_content(p, n).text))

C6_Scenario ==
  /\ SelectiveMode
  /\ FinalChecked
  /\ selected_files = <<"a.py", "b.py", "c.py">>
  /\ \A n \in FileNames : IsFile(current_project, n)
  /\ SectionTokens(current_project, "a.py") = 10000
  /\ SectionTokens(current_project, "b.py") = 5000
  /\ SectionTokens(current_project, "c.py") = 190000
  /\ estimate_tokens(message) = 100

C6_IncludesABSkipsC ==
  /\ included_files = <<"a.py", "b.py">>
  /\ Verdicts(decisions) = <<"included", "included", "skipped">>
  /\ context_tokens = 15000

C6_Amended == C6_Scenario => (C6_IncludesABSkipsC /\ total_tokens = 17100)

C6_Original == C6_Scenario => (C6_IncludesABSkipsC /\ total_tokens = 15100)

C6_Witness == C6_Scenario /\ outcome = "dispatched"

\* C7: in every mode the total that do_chat reports and checks is
\* estimate(assembled context string) + estimate(message) + 2,000.
C7_TotalIsEstimateOfContext ==
  FinalChecked =>
    total_tokens = estimate_tokens(ContextText(context))
                     + estimate_tokens(message) + Overhead

\* C8: with chat -n the context is empty whatever files the project holds:
\* nothing is read into the request, context_tokens is 0, the message is
\* handed on verbatim, and the total is estimate(message) + 2,000.
C8_NoContextIsEmpty ==
  NoContextMode =>
    /\ context = EmptyContext
    /\ ContextText(context) = EmptyText
    /\ included_files = <<>>
    /\ context_tokens = 0
    /\ FinalChecked
    /\ total_tokens = estimate_tokens(message) + Overhead
    /\ Dispatched => request = Payload(message, EmptyContext)

C8_Witness ==
  /\ NoContextMode
  /\ outcome = "dispatched"
  /\ current_project # NoProject
  /\ Len(list_files(current_project)) = 3

\* C9: in selective mode a requested name that is no file of the project is
\* reported for that name only: it is not included and adds nothing to the
\* running total, and the names after it are still processed.
C9_MissingFileReported ==
  SelectiveMode =>
    /\ Len(decisions) = Len(selected_files)
    /\ \A i \in DOMAIN decisions :
         ~IsFile(current_project, selected_files[i]) =>
           /\ decisions[i].verdict = "error"
           /\ decisions[i].file_tokens = 0
           /\ selected_files[i] \notin {included_files[j] : j \in DOMAIN included_files}

\* C10: a failed model request is not retried and leaves no artifact and no
\* conversation record: the artifacts and conversations directories are as
\* they were before the turn.
C10_FailedTurnPersistsNothing ==
  [][/\ (outcome' = "failed") =>
          /\ pc' = "returned"
          /\ UNCHANGED <<artifacts, conversations, model_calls>>
     /\ (pc = "idle" /\ pc' # "idle") => UNCHANGED <<artifacts, conversations>>
     /\ (outcome = "failed" /\ pc' = "idle") => outcome' = "none"]_vars

C10_Witness ==
  /\ outcome = "failed"
  /\ pc = "returned"
  /\ current_project # NoProject
  /\ model_calls = 1
  /\ conversations[current_project] = {}
  /\ artifacts[current_project] = {}

\* ------------------------------------------- claims on artifact extraction
\* what the response text holds, read off its segments
Extracted == passes > 0
Tidy == \A i \in 1..(Len(response_text) - 1) : response_text[i].closed
Tagged(seg) == seg.closed /\ seg.block.language # ""
Long(seg) == seg.block.strip_len >= MinCodeLen
TaggedSet == {i \in DOMAIN response_text : Tagged(response_text[i])}
KeptSet == {i \in TaggedSet : Long(response_text[i])}
KeptAt(k) == CHOOSE i \in KeptSet : Cardinality({j \in KeptSet : j <= i}) = k
TaggedRank(i) == Cardinality({j \in TaggedSet : j <= i})

\* the files the last pass wrote, aligned with the records it returned
LastWrites == SubSeq(writes, Len(writes) - Len(extracted) + 1, Len(writes))
Yielded(seg) == \E k \in DOMAIN LastWrites : LastWrites[k].content = seg.block
Essence(records) ==
  [k \in DOMAIN records |->
     [title |-> records[k].title, language |-> records[k].language]]

\* C11: no create_artifact call writes to a filename that an earlier call
\* already wrote (no artifact file is overwritten), and the records one pass
\* returns have pairwise distinct filenames.
C11_ArtifactsNeverOverwritten ==
  /\ \A i, j \in DOMAIN writes :
       i < j => writes[i].filename # writes[j].filename
  /\ \A i, j \in DOMAIN extracted :
       i # j => extracted[i].filename # extracted[j].filename

\* C12 as stated: the ordinal of a Code_Artifact title is the record's
\* 1-based position among the segments that yielded a record.
C12_Original ==
  (Extracted /\ Tidy) =>
    \A k \in DOMAIN extracted :
      extracted[k].title.base = "Code_Artifact" => extracted[k].title.ordinal = k

\* C12: the ordinal of a Code_Artifact title is the 1-based position of its
\* segment among all the segments the scan matches, the ones skipped as too
\* short included.
C12_Amended ==
  (Extracted /\ Tidy) =>
    /\ Len(extracted) = Cardinality(KeptSet)
    /\ \A k \in DOMAIN extracted :
         extracted[k].title.base = "Code_Artifact" =>
           extracted[k].title.ordinal = TaggedRank(KeptAt(k))

C12_Witness ==
  /\ Extracted
  /\ response_text = <<Fenced(Snippet), Fenced(Plain100)>>
  /\ Essence(extracted) =
       <<[title |-> Title("Code_Artifact", 2), language |-> "javascript"]>>

\* C13 as stated: a terminated segment without a language tag whose trimmed
\* body has at least 100 characters yields an artifact.
C13_Original ==
  (Extracted /\ Tidy) =>
    \A i \in DOMAIN response_text :
      (response_text[i].closed /\ response_text[i].block.language = ""
         /\ Long(response_text[i]))
        => Yielded(response_text[i])

\* C13: the language tag is required: a terminated segment without a tag
\* yields no artifact whatever the length of its body, and every artifact
\* written carries the non-empty tag of its segment.
C13_Amended ==
  (Extracted /\ Tidy) =>
    /\ \A i \in DOMAIN response_text :
         response_text[i].block.language = "" => ~Yielded(response_text[i])
    /\ \A k \in DOMAIN extracted : extracted[k].language # ""

C13_Witness ==
  /\ Extracted
  /\ response_text = <<Fenced(Untagged), Fenced(BigClass)>>
  /\ Essence(extracted) = <<[title |-> Title("Foo", 0), language |-> "python"]>>

\* C14: a tagged, terminated segment yields an artifact if and only if its
\* trimmed body has at least 100 characters: 40 and 99 yield none, exactly
\* 100 yields one.
C14_MinimumLength ==
  (Extracted /\ Tidy) =>
    \A i \in TaggedSet : Yielded(response_text[i]) <=> Long(response_text[i])

C14_Witness ==
  /\ Extracted
  /\ response_text = <<Fenced(Plain99), Fenced(Plain100), Fenced(Snippet)>>
  /\ Len(extracted) = 1
  /\ LastWrites[1].content = Plain100

\* C15 as stated: for a python segment the title is the identifier of the
\* declaration that comes first in the body, class or function.
C15_Original ==
  (Extracted /\ Tidy) =>
    \A k \in DOMAIN extracted :
      LET code == LastWrites[k].content
      IN  (code.language = "python" /\ code.first_decl = "def")
            => extracted[k].title.base = code.func_name

\* C15: for a python segment the title is the identifier of the first class
\* declaration when the body has one, even after a function declaration;
\* otherwise that of the first function declaration; a declaration beats a
\* leading comment, which beats the ordinal fallback; for any other tag no
\* declaration is looked for.
C15_Amended ==
  (Extracted /\ Tidy) =>
    \A k \in DOMAIN extracted :
      LET code == LastWrites[k].content
          base == extracted[k].title.base
      IN  /\ (code.language = "python" /\ code.class_name # "")
                => base = code.class_name
          /\ (code.language = "python" /\ code.class_name = ""
                /\ code.func_name # "")
                => base = code.func_name
          /\ ((code.language # "python"
                 \/ (code.class_name = "" /\ code.func_name = ""))
                /\ code.comment # "")
                => base = CommentTitle(code.comment)
          /\ ((code.language # "python"
                 \/ (code.class_name = "" /\ code.func_name = ""))
                /\ code.comment = "")
                => base = "Code_Artifact"

C15_Witness ==
  /\ Extracted
  /\ response_text = <<Fenced(DefThenClass), Fenced(CommentedJs), Fenced(CommentedDef)>>
  /\ Essence(extracted) =
       <<[title |-> Title("Foo", 0), language |-> "python"],
         [title |-> Title("My Helper", 0), language |-> "javascript"],
         [title |-> Title("run", 0), language |-> "python"]>>

\* C16: one record per surviving segment, in document order; a fence at the
\* end of the text that is never closed yields no record and leaves the
\* records of the segments before it as they are without it.
C16_OneRecordPerSurvivorInOrder ==
  (Extracted /\ Tidy) =>
    /\ Len(extracted) = Cardinality(KeptSet)
    /\ \A k \in DOMAIN extracted :
         /\ LastWrites[k].content = response_text[KeptAt(k)].block
         /\ extracted[k].language = response_text[KeptAt(k)].block.language
    /\ (response_text # <<>> /\ ~response_text[Len(response_text)].closed)
         => Essence(extracted) =
              Essence(extract_code_blocks(
                        SubSeq(response_text, 1, Len(response_text) - 1)))

C16_Witness ==
  /\ Extracted
  /\ response_text = <<Fenced(BigClass), Fenced(Plain100), Unterminated(OpenEnded)>>
  /\ Essence(extracted) =
       <<[title |-> Title("Foo", 0), language |-> "python"],
         [title |-> Title("Code_Artifact", 2), language |-> "javascript"]>>

Estimated == est_calls > 0
Numerator == 16 * WordCount(est_text) + 3 * Len(est_text)

\* C18 as stated: the estimate is (16*word_count + 3*char_count) / 24
\* rounded to the nearest integer.
C18_Original ==
  Estimated =>
    /\ 2 * (24 * est_tokens - Numerator) <= 24
    /\ 2 * (Numerator - 24 * est_tokens) <= 24

\* C18: the estimate is (16*word_count + 3*char_count) / 24 with its
\* fraction cut off, the largest integer not above that value.
C18_Amended ==
  Estimated =>
    /\ 24 * est_tokens <= Numerator
    /\ Numerator < 24 * est_tokens + 24

C18_Witness ==
  /\ Estimated
  /\ est_text = <<"x", " ", "x", " ", "x">>
  /\ est_tokens = 2

\* C19: the estimate is a non-negative integer, and that of the empty str
\* is 0.
C19_NonNegativeAndZeroOnEmpty ==
  Estimated =>
    /\ est_tokens \in Nat
    /\ est_text = <<>> => est_tokens = 0

C19_Witness ==
  /\ est_calls = 1
  /\ est_text = <<>>
  /\ est_tokens = 0

\* C20: estimating a non-empty str and then the same str with non-whitespace
\* characters appended never gives a smaller second estimate.
C20_MonotoneUnderExtension ==
  [][(/\ Estimated
      /\ est_text # <<>>
      /\ est_calls' = est_calls + 1
      /\ Len(est_text') > Len(est_text)
      /\ SubSeq(est_text', 1, Len(est_text)) = est_text
      /\ \A i \in (Len(est_text) + 1)..Len(est_text') : ~IsSpace(est_text'[i]))
       => est_tokens' >= est_tokens]_vars

C20_Witness ==
  /\ est_calls = 3
  /\ est_text = <<"x", "x", "x", "x", "x", "x">>
  /\ est_tokens = 1

\* ------------------------------------------------ claims on the chat turn
\* C27: the final check answers "request too large" only when no file
\* content is counted (context_tokens = 0); an all-files request that passed
\* the first check, and a selective request that included a file, pass the
\* final check and are dispatched.
C27_TooLargeOnlyWithoutFiles ==
  /\ outcome = "too_large" => context_tokens = 0
  /\ (FinalChecked /\ (AllFilesMode \/ (SelectiveMode /\ included_files # <<>>)))
       => Dispatched

C27_Witness ==
  /\ outcome = "too_large"
  /\ SelectiveMode
  /\ selected_files = <<"c.py">>
  /\ included_files = <<>>
  /\ context_tokens = 0
  /\ total_tokens > HardLimit

\* C21: after n successful chat turns in a project its conversations
\* directory holds n documents: every turn leaves its own and none is
\* overwritten by a later turn.
C21_OneDocumentPerTurn ==
  current_project # NoProject =>
    Cardinality(conversations[current_project]) = passes

\* the conversation document the finished turn wrote, read back
JustSaved ==
  {json_load(d.text) : d \in conversations[current_project]}

C25_TurnStepsInOrder ==
  [][/\ model_calls' # model_calls =>
          /\ pc = "idle" /\ pc' = "request"
          /\ model_calls' = model_calls + 1
          /\ outcome' = "dispatched"
          /\ ~TooLarge(total_tokens')
          /\ request' = Payload(message', context')
          /\ UNCHANGED <<artifacts, conversations>>
     /\ artifacts' # artifacts => (pc = "request" /\ pc' = "returned")
     /\ conversations' # conversations =>
          /\ pc = "request" /\ pc' = "returned"
          /\ outcome = "dispatched" /\ outcome' = "done"
          /\ model_calls' = model_calls
          /\ passes' = passes + 1
          /\ \E d \in conversations'[current_project] :
               /\ conversations'[current_project]
                    = {e \in conversations[current_project] : e.ts # d.ts}
                        \cup {d}
               /\ json_load(d.text).artifacts = extracted'
               /\ json_load(d.text).response = response_text'
          /\ \A k \in DOMAIN extracted' :
               extracted'[k].filename \in artifacts'[current_project]]_vars

C25_Witness ==
  /\ outcome = "done"
  /\ pc = "returned"
  /\ current_project # NoProject
  /\ model_calls = 1
  /\ passes = 1
  /\ Cardinality(conversations[current_project]) = 1
  /\ Cardinality(artifacts[current_project]) = 1
  /\ Len(extracted) = 1

\* C24: artifacts are removed only by a confirmed bulk clear: a step that
\* removes an artifact file is do_clear_artifacts answered with 'yes',
\* which removes all artifacts of the open project; no other command, remove
\* included, deletes an artifact file.
C24_OnlyClearRemovesArtifacts ==
  [][(\E p \in DOMAIN artifacts : ~(artifacts[p] \subseteq artifacts'[p]))
       => DoClearArtifacts("yes")]_vars

\* C23: projects are isolated: the chat context holds file blocks only for
\* regular files of the files directory of the open project, each with that
\* file's content, never a file of another project; with no project open the
\* context is empty.
C23_ProjectsIsolated ==
  /\ current_project = NoProject => context = EmptyContext
  /\ context # EmptyContext =>
       /\ context.project = current_project
       /\ \A i \in DOMAIN context.blocks :
            /\ context.blocks[i].name \in RegularFiles(current_project)
            /\ context.blocks[i].text
                 = files[current_project][context.blocks[i].name].text

\* C26: add_file never overwrites: every successful call writes to a name
\* that held no file before, leaves the content of every stored file as it
\* was and returns the name under which the source's content is now stored,
\* also when the same source name is added repeatedly within one second.
C26_AddNeverOverwrites ==
  [][(\E src \in SourceFiles : DoAdd(src)) =>
       /\ returned'.value \notin RegularFiles(current_project)
       /\ \A n \in RegularFiles(current_project) :
            files'[current_project][n] = files[current_project][n]
       /\ \E src \in SourceFiles :
            files'[current_project][returned'.value] = src.content]_vars

InSync == \A p \in DOMAIN files : metadata[p] = RegularFiles(p)

ChangedByHand ==
  \/ \E p \in DOMAIN files, n \in FileNames : ManuallyAdded(p, n)
  \/ \E p \in DOMAIN files, n \in FileNames \cup StampedNames :
       NoLongerExists(p, n)

TitleLines ==
  {k \in DOMAIN formatted.lines :
     \E n \in MarkerNames : formatted.lines[k] = "**File: " \o n \o "**"}

\* the formatted text holds the block of file f at position k
BlockAt(k, f) ==
  /\ k + Len(f.lines) + 2 <= Len(formatted.lines)
  /\ SubSeq(formatted.lines, k, k + Len(f.lines) + 2)
       = FileBlock(f.name, f.lines)

\* C29: every included file appears in the formatted context as its own
\* file block with its content: _format_file_context drops no file and
\* neither splits nor merges blocks, whatever the contents.
C29_EveryFileHasItsBlock ==
  formatted.called =>
    /\ Cardinality(TitleLines) = Len(fmt_files)
    /\ \A i \in DOMAIN fmt_files :
         \E k \in TitleLines : BlockAt(k, fmt_files[i])

====
